---- MODULE Spec2Model ----
(***************************************************************************)
(* Model of the stateful logic of whole_body_tracking:                     *)
(*   - the curriculum gates of tasks/tracking/mdp/curriculums.py,          *)
(*   - the checkpoint selection flow of scripts/rsl_rl/smart_selector.py,  *)
(*   - the entry point of scripts/edit_urdf_collisions.py.                 *)
(* Each part has its own specification over the shared variables; the      *)
(* variables of the other parts stay at their initial values.              *)
(***************************************************************************)
EXTENDS Integers, Sequences, FiniteSets, TLC

\* ------------------------------------------------------------------ bounds
\* Longest episode length held by episode_length_buf.
MaxLen == 2
\* Number of curriculum computations (reset batches) in one behaviour.
MaxBatches == 3

\* The simulated environments (indices of episode_length_buf).
Envs == {"e0", "e1"}
\* The curriculum terms a configuration may register.
Gates == {"armature", "push_increase"}
\* The event terms the two gates look up in event_manager._terms.
EventTerms == {"add_dof_armature", "push_robot"}
\* Candidate values of target_mean_len.
Targets == {1, 2}

VARIABLES
    \* ---- curriculum gates (curriculums.py)
    has_tracker,        \* hasattr(env, "curriculum_tracker")
    curriculum_tracker, \* env.curriculum_tracker
    event_terms,        \* keys of env.event_manager._terms
    params,             \* the gated parameter of each event term
    finished_lengths,   \* env.episode_length_buf[env_ids] of the current
                        \* curriculum computation, as a function on env_ids
    registered,         \* the gates registered as curriculum terms
    target_mean_len,    \* each gate's configured target_mean_len
    pending,            \* gates still to be called in this computation
    batches,            \* number of curriculum computations so far
    writes,             \* history: number of assignments to each gated parameter
    finished_sum,       \* history: sum of the lengths of all finished episodes
    finished_cnt,       \* history: number of finished episodes
    last_call,          \* history: the last gate call
    warned,             \* history: the gates that printed the warning that
                        \* their event term was not found
    \* ---- checkpoint selection (smart_selector.py): the SmartPlaySelector
    \* object, the locals of the running flow and the history of the run
    sel,
    \* ---- URDF entry point (edit_urdf_collisions.py)
    urdf,
    \* ---- joint default positions (events.py): the asset's data, the
    \* joint_pos action term and the history of the calls
    ev

gateVars == <<has_tracker, curriculum_tracker, event_terms, params,
              finished_lengths, registered, target_mean_len,
              pending, batches, writes, finished_sum, finished_cnt, last_call,
              warned>>

selVars == <<sel>>
urdfVars == <<urdf>>
evVars == <<ev>>

vars == <<gateVars, selVars, urdfVars, evVars>>

\* The selector before it is constructed (the value of sel in the
\* specifications of the other parts).
SelIdle == [pc |-> "unbuilt"]

\* The URDF script before it is started.
UrdfIdle == [pc |-> "unstarted"]

\* The asset before the scene exists.
EvIdle == [pc |-> "unloaded"]

\* ------------------------------------------------- checkpoint selection
\* File and directory names are sequences of tokens; a Path is a record of
\* the directories below logs/rsl_rl (or artifacts) and the file name.

\* self.TASKS
TASKS ==
    << "Tracking-Flat-S3-Wo-State-Estimation-v0",
       "Tracking-Flat-G1-Wo-State-Estimation-v0",
       "Tracking-Flat-S3-v0",
       "Tracking-Flat-G1-v0",
       "Tracking-Flat-Walk-Humanoid-v0",
       "Tracking-Flat-WalkBack-Humanoid-v0",
       "Tracking-Flat-WalkBox-Humanoid-v0" >>

\* self.TASK_LOG_MAP, a dict in insertion order
TASK_LOG_MAP ==
    << [key |-> "Tracking-Flat-G1-Wo-State-Estimation-v0", value |-> "g1_flat"],
       [key |-> "Tracking-Flat-G1-v0", value |-> "g1_flat"],
       [key |-> "Tracking-Flat-S3-Wo-State-Estimation-v0", value |-> "s3_flat"],
       [key |-> "Tracking-Flat-S3-v0", value |-> "s3_flat"],
       [key |-> "Tracking-Flat-Walk-Humanoid-v0", value |-> "humanoid_flat"],
       [key |-> "Tracking-Flat-WalkBack-Humanoid-v0", value |-> "humanoid_flat"],
       [key |-> "Tracking-Flat-WalkBox-Humanoid-v0", value |-> "humanoid_flat"] >>

\* default_num_envs: int = 2
DefaultNumEnvs == 2

\* sys.exit(0) after a cancelled prompt
CancelExitCode == 0

\* sys.exit(1) after an error
ErrorExitCode == 1

\* Python dicts as sequences of [key, value] in insertion order.
DictKeys(d) == {d[i].key : i \in DOMAIN d}
DictIndex(d, k) == CHOOSE i \in DOMAIN d : d[i].key = k
\* d.get(k, default)
DictGet(d, k, default) ==
    IF k \in DictKeys(d) THEN d[DictIndex(d, k)].value ELSE default

\* None for a Path, and for latest_checkpoint_info
NonePath == [log_dir |-> "None", dir |-> << >>, name |-> << >>]
NoneInfo == [path |-> NonePath, log_dir |-> "None"]

RevAppend_Overwrite(list, task) == <<task>>

\* self.REVERSE_LOG_MAP[log_dir].append(task)
RevAppend(list, task) == Append(list, task)

RECURSIVE BuildReverse(_, _, _)
\* The loop of _build_reverse_log_map over TASK_LOG_MAP.items(), from item i.
BuildReverse(map, i, rev) ==
    IF i > Len(map) THEN rev
    ELSE LET task == map[i].key
             log_dir == map[i].value
             rev1 == IF log_dir \notin DictKeys(rev)
                     THEN Append(rev, [key |-> log_dir, value |-> << >>])
                     ELSE rev
             k == DictIndex(rev1, log_dir)
             rev2 == [rev1 EXCEPT ![k].value = RevAppend(@, task)]
         IN BuildReverse(map, i + 1, rev2)

_build_reverse_log_map == BuildReverse(TASK_LOG_MAP, 1, << >>)

\* ---- names

IsDigit(c) == c \in {"0", "1", "2"}
DigitVal(c) == IF c = "0" THEN 0 ELSE IF c = "1" THEN 1 ELSE 2

RECURSIVE ToInt(_)
\* int() of a sequence of digits
ToInt(ds) ==
    IF ds = << >> THEN 0
    ELSE 10 * ToInt(SubSeq(ds, 1, Len(ds) - 1)) + DigitVal(ds[Len(ds)])

\* The order of the tokens as strings (by their first character).
TokenRank(c) ==
    CASE c = ".pt" -> 1 [] c = "0" -> 2 [] c = "1" -> 3 [] c = "2" -> 4
      [] c = "2024-01-01" -> 5 [] c = "2024-01-02" -> 6
      [] c = "10-00-00" -> 7 [] c = "11-00-00" -> 8
      [] c = ":v" -> 9 [] c = "_" -> 10 [] c = "a" -> 11 [] c = "b" -> 12
      [] c = "model_" -> 13 [] c = "r" -> 14 [] c = "x" -> 15

RECURSIVE LexLess(_, _)
\* a < b for two names as Python compares strings
LexLess(a, b) ==
    IF b = << >> THEN FALSE
    ELSE IF a = << >> THEN TRUE
    ELSE IF a[1] # b[1] THEN TokenRank(a[1]) < TokenRank(b[1])
    ELSE LexLess(Tail(a), Tail(b))

\* Sequences without repetition of at most n elements of S: a directory
\* listing in the order the file system returns it.
Listings(S, n) ==
    {q \in UNION {[1..k -> S] : k \in 0..n} :
        \A i, j \in DOMAIN q : i # j => q[i] # q[j]}

\* ---- _get_model_num

\* Whether r'model_(\d+)\.pt' matches in name from position i: 'model_',
\* then one or more digits, then '.pt'.
MatchesAt(name, i) ==
    /\ name[i] = "model_"
    /\ \E j \in (i + 2)..Len(name) :
          /\ name[j] = ".pt"
          /\ \A k \in (i + 1)..(j - 1) : IsDigit(name[k])

\* The digits of the match at position i.
MatchDigits(name, i) ==
    LET j == CHOOSE x \in (i + 2)..Len(name) :
                /\ name[x] = ".pt"
                /\ \A k \in (i + 1)..(x - 1) : IsDigit(name[k])
    IN SubSeq(name, i + 1, j - 1)

\* re.search takes the leftmost match; int(match.group(1)) if match else -1
_get_model_num(name) ==
    IF \A i \in DOMAIN name : ~MatchesAt(name, i) THEN -1
    ELSE LET first == CHOOSE i \in DOMAIN name :
                         /\ MatchesAt(name, i)
                         /\ \A h \in 1..(i - 1) : ~MatchesAt(name, h)
         IN ToInt(MatchDigits(name, first))

CheckpointBefore_Ascending(ka, kb) == ka < kb

\* sorted(..., reverse=True): the greater key first
CheckpointBefore(ka, kb) == ka > kb

RECURSIVE InsertCheckpoint(_, _)
\* path put into a sorted list: before the first file it must precede, so
\* after the files of equal number already there (the sort is stable).
InsertCheckpoint(sorted, path) ==
    IF sorted = << >> THEN <<path>>
    ELSE IF CheckpointBefore(_get_model_num(path.name),
                             _get_model_num(Head(sorted).name))
         THEN <<path>> \o sorted
         ELSE <<Head(sorted)>> \o InsertCheckpoint(Tail(sorted), path)

RECURSIVE SortCheckpointsFrom(_, _, _)
SortCheckpointsFrom(paths, i, sorted) ==
    IF i > Len(paths) THEN sorted
    ELSE SortCheckpointsFrom(paths, i + 1, InsertCheckpoint(sorted, paths[i]))

\* sorted(checkpoint_paths, key=self._get_model_num, reverse=True)
SortCheckpoints(paths) == SortCheckpointsFrom(paths, 1, << >>)

RECURSIVE SortNamesDesc(_)
\* sorted(S, reverse=True) of a set of distinct names
SortNamesDesc(S) ==
    IF S = {} THEN << >>
    ELSE LET top == CHOOSE x \in S : \A y \in S : ~LexLess(x, y)
         IN <<top>> \o SortNamesDesc(S \ {top})

RECURSIVE SortTokensDesc_Ascending(_)
SortTokensDesc_Ascending(S) ==
    IF S = {} THEN << >>
    ELSE LET low == CHOOSE x \in S : \A y \in S : TokenRank(x) <= TokenRank(y)
         IN <<low>> \o SortTokensDesc_Ascending(S \ {low})

RECURSIVE SortTokensDesc(_)
\* sorted(S, reverse=True) of a set of one-token strings
SortTokensDesc(S) ==
    IF S = {} THEN << >>
    ELSE LET top == CHOOSE x \in S : \A y \in S : TokenRank(y) <= TokenRank(x)
         IN <<top>> \o SortTokensDesc(S \ {top})

RECURSIVE SortPathsByDir(_)
\* sorted(S, key=lambda p: p.parent.name) of paths of distinct directories
SortPathsByDir(S) ==
    IF S = {} THEN << >>
    ELSE LET low == CHOOSE x \in S : \A y \in S : ~LexLess(y.dir, x.dir)
         IN <<low>> \o SortPathsByDir(S \ {low})

RECURSIVE PathsOf(_, _, _)
\* The paths of the files names in directory dir below log_dir.
PathsOf(log_dir, dir, names) ==
    IF names = << >> THEN << >>
    ELSE <<[log_dir |-> log_dir, dir |-> dir, name |-> Head(names)]>>
         \o PathsOf(log_dir, dir, Tail(names))

\* ---- the file system the selector reads

\* Most entries of one directory listing.
MaxEntries == 2
\* Most rejected inputs at the number-of-environments prompt.
MaxRetries == 1

Dates == {"2024-01-01", "2024-01-02"}
Times == {"10-00-00", "11-00-00"}

\* Names of directories found below logs/rsl_rl/<log dir>.
RunDirNames ==
    { <<"2024-01-01", "_", "10-00-00">>,
      <<"2024-01-01", "_", "11-00-00", "_", "r">>,
      <<"2024-01-02", "_", "10-00-00", "_", "r">>,
      <<"2024-01-02", "x">>,
      <<"x">> }

\* Names of files a run directory's glob("model_*.pt") can return.
CheckpointFile(body) == <<"model_">> \o body \o <<".pt">>
CheckpointNames ==
    { CheckpointFile(b) : b \in { <<"2">>, <<"1", "0">>, <<"0", "2">>,
                                  <<"x">>, << >>, <<"2", ".pt">> } }

\* Names of directories below artifacts/ that hold a motion.npz.
MotionDirNames ==
    { <<"a">>, <<"a", ":v", "2">>, <<"a", ":v", "1", "0">>, <<"b", ":v", "1">> }

\* The model files below logs/rsl_rl at construction, with their mtime.
ScanFiles ==
    { [path |-> [log_dir |-> "g1_flat", dir |-> <<"2024-01-01", "_", "10-00-00">>,
                 name |-> CheckpointFile(<<"0", "2">>)], mtime |-> 1],
      [path |-> [log_dir |-> "s3_flat", dir |-> <<"2024-01-02", "_", "10-00-00", "_", "r">>,
                 name |-> CheckpointFile(<<"2">>)], mtime |-> 2],
      [path |-> [log_dir |-> "misc", dir |-> <<"x">>,
                 name |-> CheckpointFile(<<"1", "0">>)], mtime |-> 2] }

\* What the user can type at the number-of-environments prompt.
NumEnvInputs ==
    { << >>, <<"x">>, <<"0">>, <<"-", "1">>, <<"1", "2">> }

\* ---- _find_latest_checkpoint

LatestFile_Oldest(all_models) ==
    all_models[CHOOSE i \in DOMAIN all_models :
                 /\ \A j \in DOMAIN all_models :
                        all_models[i].mtime <= all_models[j].mtime
                 /\ \A j \in DOMAIN all_models :
                        all_models[j].mtime = all_models[i].mtime => i <= j]

\* max(all_models, key=os.path.getmtime): the first file of greatest mtime
LatestFile(all_models) ==
    all_models[CHOOSE i \in DOMAIN all_models :
                 /\ \A j \in DOMAIN all_models :
                        all_models[j].mtime <= all_models[i].mtime
                 /\ \A j \in DOMAIN all_models :
                        all_models[j].mtime = all_models[i].mtime => i <= j]

\* The first key of REVERSE_LOG_MAP that is a directory of the path.
InferLogDir(rev, path) ==
    IF \E i \in DOMAIN rev : rev[i].key = path.log_dir
    THEN rev[CHOOSE i \in DOMAIN rev :
                /\ rev[i].key = path.log_dir
                /\ \A j \in DOMAIN rev : rev[j].key = path.log_dir => i <= j].key
    ELSE "None"

_find_latest_checkpoint(rev, log_root_exists, all_models) ==
    IF ~log_root_exists THEN NoneInfo
    ELSE IF all_models = << >> THEN NoneInfo
    ELSE LET latest_file == LatestFile(all_models).path
             inferred_log_dir == InferLogDir(rev, latest_file)
         IN IF inferred_log_dir # "None"
            THEN [path |-> latest_file, log_dir |-> inferred_log_dir]
            ELSE NoneInfo

\* ---- _select_motion_file: the latest version of each motion

\* version_regex r'^(.*?):v(\d+)$': the position of the ':v' it matches, or 0
VersionMark(dir_name) ==
    LET marks == {p \in DOMAIN dir_name :
                     /\ dir_name[p] = ":v"
                     /\ p < Len(dir_name)
                     /\ \A k \in (p + 1)..Len(dir_name) : IsDigit(dir_name[k])}
    IN IF marks = {} THEN 0 ELSE CHOOSE p \in marks : TRUE

BaseName(dir_name) ==
    IF VersionMark(dir_name) = 0 THEN dir_name
    ELSE SubSeq(dir_name, 1, VersionMark(dir_name) - 1)

Version(dir_name) ==
    IF VersionMark(dir_name) = 0 THEN -1
    ELSE ToInt(SubSeq(dir_name, VersionMark(dir_name) + 1, Len(dir_name)))

NewerVersion_Older(version, held) == version < held

\* version > latest_motions[base_name][0]
NewerVersion(version, held) == version > held

RECURSIVE LatestMotions(_, _, _)
\* The loop over all_motion_paths filling the dict latest_motions.
LatestMotions(paths, i, latest) ==
    IF i > Len(paths) THEN latest
    ELSE LET base_name == BaseName(paths[i].dir)
             version == Version(paths[i].dir)
             entry == [key |-> base_name,
                       value |-> [version |-> version, path |-> paths[i]]]
             next == IF base_name \notin DictKeys(latest)
                     THEN Append(latest, entry)
                     ELSE IF NewerVersion(version,
                                          DictGet(latest, base_name, entry.value).version)
                          THEN [latest EXCEPT ![DictIndex(latest, base_name)] = entry]
                          ELSE latest
         IN LatestMotions(paths, i + 1, next)

\* sorted([path for version, path in latest_motions.values()],
\*        key=lambda p: p.parent.name)
MotionFiles(all_motion_paths) ==
    LET latest == LatestMotions(all_motion_paths, 1, << >>)
    IN SortPathsByDir({latest[i].value.path : i \in DOMAIN latest})

RECURSIVE MotionPaths(_)
\* artifacts_dir.glob("**/motion.npz"), for the directories dir_names
MotionPaths(dir_names) ==
    IF dir_names = << >> THEN << >>
    ELSE <<[log_dir |-> "artifacts", dir |-> Head(dir_names),
            name |-> <<"motion.npz">>]>> \o MotionPaths(Tail(dir_names))

\* ---- _select_checkpoint_path_manual: dates and run directories

\* dir_regex r'^(\d{4}-\d{2}-\d{2})_(\d{2}-\d{2}-\d{2})(?:_(.*))?$'
DirRegexMatch(name) ==
    /\ Len(name) >= 3
    /\ name[1] \in Dates
    /\ name[2] = "_"
    /\ name[3] \in Times
    /\ (Len(name) = 3 \/ name[4] = "_")

\* date_to_run_names.keys()
DateKeys(all_run_dirs) == {d[1] : d \in {x \in all_run_dirs : DirRegexMatch(x)}}

\* options_list = sorted(list(date_to_run_names.keys()), reverse=True)
DateOptions(all_run_dirs) == SortTokensDesc(DateKeys(all_run_dirs))

\* d.name.startswith(str(selected_date))
StartsWith(name, date) == Len(name) >= 1 /\ name[1] = date

\* sorted([d for d in all_run_dirs if d.name.startswith(...)], reverse=True)
TimeDirs(all_run_dirs, selected_date) ==
    SortNamesDesc({d \in all_run_dirs : StartsWith(d, selected_date)})

\* ---- _select_num_envs: int(num_str)

\* Whether int(num_str) returns (otherwise it raises ValueError).
IntParses(str) ==
    LET digits == IF str # << >> /\ str[1] = "-" THEN Tail(str) ELSE str
    IN digits # << >> /\ \A k \in DOMAIN digits : IsDigit(digits[k])

IntValue(str) ==
    IF str[1] = "-" THEN 0 - ToInt(Tail(str)) ELSE ToInt(str)

\* ---- the selection flow
\* sel.pc names the prompt the selector is blocked at ("mode", "task",
\* "motion", "date", "run", "model", "model_5b", "num_envs"), or "start"
\* (constructed), "done" (run_selection_flow returned) or "exit" (sys.exit).
\* The functions below take the selector's state and return its state, or
\* the set of its possible states, at the next prompt or at the end.

MenuSteps == {"mode", "task", "motion", "date", "run", "model", "model_5b"}

\* SmartPlaySelector.__init__, given what the scan of logs/rsl_rl finds
Construct(require_motion_file, log_root_exists, all_models) ==
    [pc |-> "start",
     require_motion_file |-> require_motion_file,
     default_num_envs |-> DefaultNumEnvs,
     REVERSE_LOG_MAP |-> _build_reverse_log_map,
     latest_checkpoint_info |->
         _find_latest_checkpoint(_build_reverse_log_map, log_root_exists, all_models),
     selected_task |-> "None",
     selected_motion_file |-> NonePath,
     selected_checkpoint_file |-> NonePath,
     num_envs |-> DefaultNumEnvs,
     logs_base_dir |-> "None",
     \* locals of run_selection_flow and _select_checkpoint_path_manual
     all_models |-> IF log_root_exists THEN all_models ELSE << >>,
     mode |-> "none",
     artifacts_read |-> FALSE,
     all_motion_paths |-> << >>,
     all_run_dirs |-> {},
     selected_date |-> "None",
     selected_run_dir |-> << >>,
     checkpoint_paths |-> << >>,
     sorted_checkpoints |-> << >>,
     \* the last call of _interactive_menu
     menu |-> "none",
     menu_options |-> << >>,
     \* history of the run
     steps |-> << >>,
     prompts |-> 0,
     rejected |-> 0,
     messages |-> {},
     last_input |-> "none",
     num_str |-> << >>,
     log_dir_exists |-> "unknown",
     exit_code |-> -1]

Exit_Continue(s, code, msg) == [s EXCEPT !.messages = @ \cup {msg}]

\* print(msg); sys.exit(code)
Exit(s, code, msg) ==
    [s EXCEPT !.pc = "exit", !.exit_code = code, !.messages = @ \cup {msg}]

\* A step of the flow begins.
EnterStep(s, step) == [s EXCEPT !.steps = Append(@, step)]

NoOptionsExit_Zero(s) == Exit(s, CancelExitCode, "error_no_options")

\* if not options: print the error; sys.exit(1)
NoOptionsExit(s) == Exit(s, ErrorExitCode, "error_no_options")

\* _interactive_menu up to terminal_menu.show()
ShowMenu(s, step, options) ==
    LET s1 == [s EXCEPT !.menu = step, !.menu_options = options]
    IN IF options = << >>
       THEN NoOptionsExit(s1)
       ELSE [s1 EXCEPT !.pc = step, !.prompts = @ + 1]

Cancelled_AsError(s) == Exit(s, ErrorExitCode, "cancelled")

\* if menu_entry_index is None (and except KeyboardInterrupt):
\* print the cancellation; sys.exit(0)
Cancelled(s) == Exit(s, CancelExitCode, "cancelled")

\* _select_num_envs up to input()
NumEnvsPrompt(s) ==
    [EnterStep(s, "num_envs") EXCEPT
        !.pc = "num_envs", !.prompts = @ + 1,
        !.menu = "none", !.menu_options = << >>,
        !.all_run_dirs = {}, !.selected_date = "None",
        !.selected_run_dir = << >>, !.checkpoint_paths = << >>,
        !.sorted_checkpoints = << >>]

\* The end of _select_num_envs and the summary of run_selection_flow.
Finish(s) == [s EXCEPT !.pc = "done", !.messages = @ \cup {"summary"}]

LogDirMissing_Ignored(s) == [s EXCEPT !.log_dir_exists = "no"]

\* if not self.logs_base_dir.exists(): print the error; sys.exit(1)
LogDirMissing(s) ==
    Exit([s EXCEPT !.log_dir_exists = "no"], ErrorExitCode, "error_log_dir_missing")

\* _select_checkpoint_path_manual up to the date menu (step 3)
DateStep(s) ==
    LET s1 == [EnterStep(s, "date") EXCEPT
                  !.logs_base_dir = DictGet(TASK_LOG_MAP, s.selected_task, "g1_flat")]
    IN {LogDirMissing(s1)}
       \cup {ShowMenu([s1 EXCEPT !.log_dir_exists = "yes", !.all_run_dirs = dirs],
                      "date", DateOptions(dirs)) :
               dirs \in {d \in SUBSET RunDirNames : Cardinality(d) <= MaxEntries}}

AfterMotion_AlwaysManual(s) == DateStep(s)

\* What run_selection_flow calls after _select_motion_file.
AfterMotion(s) ==
    IF s.mode = "fast" THEN {NumEnvsPrompt(s)} ELSE DateStep(s)

MotionRequired_Always(s) == TRUE

\* self.require_motion_file
MotionRequired(s) == s.require_motion_file

\* _select_motion_file up to its menu (step 2)
_select_motion_file(s) ==
    LET s1 == EnterStep(s, "motion")
    IN IF ~MotionRequired(s)
       THEN AfterMotion([s1 EXCEPT !.selected_motion_file = NonePath,
                                   !.messages = @ \cup {"motion_skipped"}])
       ELSE {ShowMenu([s1 EXCEPT !.artifacts_read = TRUE,
                                 !.all_motion_paths = MotionPaths(names)],
                      "motion", MotionFiles(MotionPaths(names))) :
               names \in Listings(MotionDirNames, MaxEntries)}

\* _select_task up to its menu (step 1)
_select_task(s, task_list) == ShowMenu(EnterStep(s, "task"), "task", task_list)

\* The options of the step 0 menu.
ModeOptions(s) ==
    IF s.latest_checkpoint_info # NoneInfo
    THEN <<"FAST_START", "MANUAL">>
    ELSE <<"MANUAL">>

\* The options of the step 5 menu.
ModelOptions(latest_model) ==
    << [id |-> "LATEST", path |-> latest_model],
       [id |-> "MANUAL_SELECT", path |-> NonePath] >>

\* step 5 of _select_checkpoint_path_manual, up to its menu
ModelStep(s) ==
    {IF checkpoint_paths = << >>
     THEN Exit([s EXCEPT !.checkpoint_paths = << >>], ErrorExitCode,
               "error_no_checkpoint")
     ELSE LET sorted_checkpoints == SortCheckpoints(checkpoint_paths)
          IN ShowMenu([EnterStep(s, "model") EXCEPT
                          !.checkpoint_paths = checkpoint_paths,
                          !.sorted_checkpoints = sorted_checkpoints],
                      "model", ModelOptions(sorted_checkpoints[1])) :
       checkpoint_paths \in
          {PathsOf(s.logs_base_dir, s.selected_run_dir, names) :
             names \in Listings(CheckpointNames, MaxEntries)}}

\* The selectors SmartPlaySelector(require_motion_file) can construct.
Constructed ==
    {Construct(require_motion_file, log_root_exists, all_models) :
        require_motion_file \in BOOLEAN, log_root_exists \in BOOLEAN,
        all_models \in Listings(ScanFiles, MaxEntries)}

\* run_selection_flow up to the step 0 menu
run_selection_flow ==
    /\ UNCHANGED <<gateVars, urdfVars, evVars>>
    /\ sel.pc = "start"
    /\ sel' = ShowMenu(EnterStep(sel, "mode"), "mode", ModeOptions(sel))

\* terminal_menu.show() returns None
CancelMenu ==
    /\ UNCHANGED <<gateVars, urdfVars, evVars>>
    /\ sel.pc \in MenuSteps
    /\ sel' = Cancelled([sel EXCEPT !.last_input = "cancel"])

\* The user picks entry i of the displayed menu.
Picked(i) == [sel EXCEPT !.last_input = "pick"]

PickMode ==
    /\ UNCHANGED <<gateVars, urdfVars, evVars>>
    /\ sel.pc = "mode"
    /\ \E i \in DOMAIN sel.menu_options :
         sel' = IF sel.menu_options[i] = "FAST_START"
                THEN _select_task(
                        [Picked(i) EXCEPT
                            !.mode = "fast",
                            !.selected_checkpoint_file = sel.latest_checkpoint_info.path],
                        DictGet(sel.REVERSE_LOG_MAP,
                                sel.latest_checkpoint_info.log_dir, TASKS))
                ELSE _select_task([Picked(i) EXCEPT !.mode = "manual"], TASKS)

PickTask ==
    /\ UNCHANGED <<gateVars, urdfVars, evVars>>
    /\ sel.pc = "task"
    /\ \E i \in DOMAIN sel.menu_options :
         sel' \in _select_motion_file(
                     [Picked(i) EXCEPT !.selected_task = sel.menu_options[i],
                                       !.all_models = << >>])

PickMotion ==
    /\ UNCHANGED <<gateVars, urdfVars, evVars>>
    /\ sel.pc = "motion"
    /\ \E i \in DOMAIN sel.menu_options :
         sel' \in AfterMotion(
                     [Picked(i) EXCEPT !.selected_motion_file = sel.menu_options[i],
                                       !.all_motion_paths = << >>])

\* The date is chosen; step 4, the run directory menu, follows.
PickDate ==
    /\ UNCHANGED <<gateVars, urdfVars, evVars>>
    /\ sel.pc = "date"
    /\ \E i \in DOMAIN sel.menu_options :
         sel' = ShowMenu(
                   EnterStep([Picked(i) EXCEPT !.selected_date = sel.menu_options[i]],
                             "run"),
                   "run", TimeDirs(sel.all_run_dirs, sel.menu_options[i]))

\* The run directory is chosen; step 5 follows.
PickRun ==
    /\ UNCHANGED <<gateVars, urdfVars, evVars>>
    /\ sel.pc = "run"
    /\ \E i \in DOMAIN sel.menu_options :
         sel' \in ModelStep([Picked(i) EXCEPT
                               !.selected_run_dir = sel.menu_options[i],
                               !.all_run_dirs = {}])

\* Step 5: the latest model, or the menu of all models (step 5b).
PickModel ==
    /\ UNCHANGED <<gateVars, urdfVars, evVars>>
    /\ sel.pc = "model"
    /\ \E i \in DOMAIN sel.menu_options :
         sel' = IF sel.menu_options[i].id = "MANUAL_SELECT"
                THEN ShowMenu(Picked(i), "model_5b", sel.sorted_checkpoints)
                ELSE NumEnvsPrompt(
                        [Picked(i) EXCEPT
                            !.selected_checkpoint_file = sel.sorted_checkpoints[1]])

PickHistoryModel ==
    /\ UNCHANGED <<gateVars, urdfVars, evVars>>
    /\ sel.pc = "model_5b"
    /\ \E i \in DOMAIN sel.menu_options :
         sel' = NumEnvsPrompt(
                   [Picked(i) EXCEPT !.selected_checkpoint_file = sel.menu_options[i]])

AcceptedNumEnvs_NonNegative(num_int) == num_int >= 0

\* if num_int > 0
AcceptedNumEnvs(num_int) == num_int > 0

\* One pass of the loop of _select_num_envs: the user enters num_str.
InputNumEnvs ==
    /\ UNCHANGED <<gateVars, urdfVars, evVars>>
    /\ sel.pc = "num_envs"
    /\ \E num_str \in NumEnvInputs :
         LET s == [sel EXCEPT !.last_input = "text", !.num_str = num_str]
             again(msg) == [s EXCEPT !.messages = @ \cup {msg},
                                     !.rejected = @ + 1, !.prompts = @ + 1]
         IN IF num_str = << >>
            THEN sel' = Finish([s EXCEPT !.num_envs = s.default_num_envs])
            ELSE IF ~IntParses(num_str)
            THEN sel.rejected < MaxRetries /\ sel' = again("error_not_a_number")
            ELSE IF AcceptedNumEnvs(IntValue(num_str))
            THEN sel' = Finish([s EXCEPT !.num_envs = IntValue(num_str)])
            ELSE sel.rejected < MaxRetries /\ sel' = again("error_not_positive")

\* KeyboardInterrupt at input()
InterruptNumEnvs ==
    /\ UNCHANGED <<gateVars, urdfVars, evVars>>
    /\ sel.pc = "num_envs"
    /\ sel' = Cancelled([sel EXCEPT !.last_input = "interrupt"])

SelNext ==
    \/ run_selection_flow
    \/ CancelMenu
    \/ PickMode
    \/ PickTask
    \/ PickMotion
    \/ PickDate
    \/ PickRun
    \/ PickModel
    \/ PickHistoryModel
    \/ InputNumEnvs
    \/ InterruptNumEnvs

\* ------------------------------------------------------- curriculum gates

\* The env_ids argument of the current curriculum computation.
env_ids == DOMAIN finished_lengths

RECURSIVE SumOver(_, _)
SumOver(lens, ids) ==
    IF ids = {} THEN 0
    ELSE LET e == CHOOSE x \in ids : TRUE
         IN lens[e] + SumOver(lens, ids \ {e})

\* torch.sum(finished_lengths).item()
SumLens(lens) == SumOver(lens, DOMAIN lens)

\* The dictionary both gates create when env has no curriculum_tracker.
NewTracker == [total_len |-> 0, num_episodes |-> 0, triggered_events |-> {}]

\* tracker = env.curriculum_tracker, after the hasattr initialisation.
Tracker(has, t) == IF has THEN t ELSE NewTracker

AlreadyTriggered_NoLatch(t, flag) == FALSE

\* if flag in tracker.get("triggered_events", set()): return
AlreadyTriggered(t, flag) == flag \in t.triggered_events

\* tracker["total_len"] += sum(finished_lengths); tracker["num_episodes"] += len(...)
Accumulate(t, lens) ==
    [t EXCEPT !.total_len = @ + SumLens(lens),
              !.num_episodes = @ + Cardinality(DOMAIN lens)]

\* mean_len = total_len / num_episodes; mean_len >= target_mean_len
MeanReached(t, target) == t.total_len >= target * t.num_episodes

\* try: event_term = _terms[name]; params[...] = range; triggered_events.add(flag)
\* except KeyError: warning only
Flip(t, p, w, terms, term, flag, range) ==
    IF term \in terms
    THEN [tracker |-> [t EXCEPT !.triggered_events = @ \cup {flag}],
          params  |-> [p EXCEPT ![term] = range],
          writes  |-> [w EXCEPT ![term] = @ + 1],
          warning |-> FALSE]
    ELSE [tracker |-> t, params |-> p, writes |-> w, warning |-> TRUE]

\* The body of gate_dof_armature_by_episode_length: the threshold test lies
\* inside "if len(env_ids) > 0".
ArmatureResult(t, p, w, terms, lens, target) ==
    IF AlreadyTriggered(t, "armature")
    THEN [tracker |-> t, params |-> p, writes |-> w, warning |-> FALSE]
    ELSE IF Cardinality(DOMAIN lens) > 0
         THEN LET t1 == Accumulate(t, lens)
              IN IF t1.num_episodes = 0
                 THEN [tracker |-> t1, params |-> p, writes |-> w, warning |-> FALSE]
                 ELSE IF MeanReached(t1, target)
                      THEN Flip(t1, p, w, terms, "add_dof_armature", "armature",
                                "active_range")
                      ELSE [tracker |-> t1, params |-> p, writes |-> w, warning |-> FALSE]
         ELSE [tracker |-> t, params |-> p, writes |-> w, warning |-> FALSE]

\* The body of gate_push_velocity_by_episode_length: the threshold test
\* follows the "if len(env_ids) > 0" block.
PushResult(t, p, w, terms, lens, target) ==
    IF AlreadyTriggered(t, "push_increase")
    THEN [tracker |-> t, params |-> p, writes |-> w, warning |-> FALSE]
    ELSE LET t1 == IF Cardinality(DOMAIN lens) > 0 THEN Accumulate(t, lens) ELSE t
         IN IF t1.num_episodes = 0
            THEN [tracker |-> t1, params |-> p, writes |-> w, warning |-> FALSE]
            ELSE IF MeanReached(t1, target)
                 THEN Flip(t1, p, w, terms, "push_robot", "push_increase",
                           "new_velocity_range")
                 ELSE [tracker |-> t1, params |-> p, writes |-> w, warning |-> FALSE]

GateInit ==
    /\ has_tracker = FALSE
    /\ curriculum_tracker = NewTracker
    /\ event_terms \in SUBSET EventTerms
    /\ params = [e \in EventTerms |-> "initial"]
    /\ finished_lengths = << >>
    /\ registered \in (SUBSET Gates) \ {{}}
    /\ target_mean_len \in [Gates -> Targets]
    /\ pending = {}
    /\ batches = 0
    /\ writes = [e \in EventTerms |-> 0]
    /\ finished_sum = 0
    /\ finished_cnt = 0
    /\ last_call = [gate |-> "none", was_triggered |-> FALSE, compared |-> FALSE]
    /\ warned = {}
    /\ sel = SelIdle
    /\ urdf = UrdfIdle
    /\ ev = EvIdle

\* One curriculum computation starts: the environments in ids have finished
\* an episode, with the lengths held by episode_length_buf.
ComputeCurriculum ==
    /\ pending = {}
    /\ batches < MaxBatches
    /\ \E ids \in SUBSET Envs : \E lens \in [ids -> 0..MaxLen] :
          /\ finished_lengths' = lens
          /\ finished_sum' = finished_sum + SumLens(lens)
          /\ finished_cnt' = finished_cnt + Cardinality(ids)
    /\ pending' = registered
    /\ batches' = batches + 1
    /\ last_call' = [gate |-> "none", was_triggered |-> FALSE, compared |-> FALSE]
    /\ UNCHANGED <<has_tracker, curriculum_tracker, event_terms, params,
                   registered, target_mean_len, writes, warned,
                   selVars, urdfVars, evVars>>

gate_dof_armature_by_episode_length ==
    /\ "armature" \in pending
    /\ LET t == Tracker(has_tracker, curriculum_tracker)
           r == ArmatureResult(t, params, writes, event_terms,
                               finished_lengths,
                               target_mean_len["armature"])
       IN /\ has_tracker' = TRUE
          /\ curriculum_tracker' = r.tracker
          /\ params' = r.params
          /\ writes' = r.writes
          /\ warned' = IF r.warning THEN warned \cup {"armature"} ELSE warned
          /\ last_call' = [gate |-> "armature",
                           was_triggered |-> "armature" \in t.triggered_events,
                           compared |-> /\ "armature" \notin t.triggered_events
                                        /\ Cardinality(env_ids) > 0]
    /\ pending' = pending \ {"armature"}
    /\ UNCHANGED <<event_terms, finished_lengths, registered,
                   target_mean_len, batches, finished_sum, finished_cnt,
                   selVars, urdfVars, evVars>>

gate_push_velocity_by_episode_length ==
    /\ "push_increase" \in pending
    /\ LET t == Tracker(has_tracker, curriculum_tracker)
           r == PushResult(t, params, writes, event_terms,
                           finished_lengths,
                           target_mean_len["push_increase"])
       IN /\ has_tracker' = TRUE
          /\ curriculum_tracker' = r.tracker
          /\ params' = r.params
          /\ writes' = r.writes
          /\ warned' = IF r.warning THEN warned \cup {"push_increase"} ELSE warned
          /\ last_call' = [gate |-> "push_increase",
                           was_triggered |-> "push_increase" \in t.triggered_events,
                           compared |-> /\ "push_increase" \notin t.triggered_events
                                        /\ r.tracker.num_episodes > 0]
    /\ pending' = pending \ {"push_increase"}
    /\ UNCHANGED <<event_terms, finished_lengths, registered,
                   target_mean_len, batches, finished_sum, finished_cnt,
                   selVars, urdfVars, evVars>>

GateNext ==
    \/ ComputeCurriculum
    \/ gate_dof_armature_by_episode_length
    \/ gate_push_velocity_by_episode_length

SpecGate == GateInit /\ [][GateNext]_vars

\* The gates in an environment whose event manager gains its terms while
\* the curriculum runs: no term at first, a term may be registered between
\* two curriculum computations.
GateTermsInit ==
    /\ has_tracker = FALSE
    /\ curriculum_tracker = NewTracker
    /\ event_terms = {}
    /\ params = [e \in EventTerms |-> "initial"]
    /\ finished_lengths = << >>
    /\ registered \in (SUBSET Gates) \ {{}}
    /\ target_mean_len \in [Gates -> Targets]
    /\ pending = {}
    /\ batches = 0
    /\ writes = [e \in EventTerms |-> 0]
    /\ finished_sum = 0
    /\ finished_cnt = 0
    /\ last_call = [gate |-> "none", was_triggered |-> FALSE, compared |-> FALSE]
    /\ warned = {}
    /\ sel = SelIdle
    /\ urdf = UrdfIdle
    /\ ev = EvIdle

\* env.event_manager._terms gains the entry term.
RegisterEventTerm ==
    /\ pending = {}
    /\ \E term \in EventTerms \ event_terms :
          event_terms' = event_terms \cup {term}
    /\ UNCHANGED <<has_tracker, curriculum_tracker, params, finished_lengths,
                   registered, target_mean_len, pending, batches, writes,
                   finished_sum, finished_cnt, last_call, warned,
                   selVars, urdfVars, evVars>>

GateTermsNext ==
    \/ ComputeCurriculum
    \/ gate_dof_armature_by_episode_length
    \/ gate_push_velocity_by_episode_length
    \/ RegisterEventTerm

SpecGateTerms == GateTermsInit /\ [][GateTermsNext]_vars

\* The selector alone: the gates and the URDF script stay as constructed.
SelInit ==
    /\ sel \in Constructed
    /\ urdf = UrdfIdle
    /\ ev = EvIdle
    /\ has_tracker = FALSE
    /\ curriculum_tracker = NewTracker
    /\ event_terms = {}
    /\ params = [e \in EventTerms |-> "initial"]
    /\ finished_lengths = << >>
    /\ registered = {}
    /\ target_mean_len = [g \in Gates |-> 1]
    /\ pending = {}
    /\ batches = 0
    /\ writes = [e \in EventTerms |-> 0]
    /\ finished_sum = 0
    /\ finished_cnt = 0
    /\ last_call = [gate |-> "none", was_triggered |-> FALSE, compared |-> FALSE]
    /\ warned = {}

SpecSel == SelInit /\ [][SelNext]_vars

\* ---- claims about the checkpoint selection

\* C4: in the manual flow the checkpoint offered as the latest model is a
\* file of the run directory whose number (as _get_model_num reads it, -1
\* for a name without number) is at least that of every file there, and it
\* is the file stored in selected_checkpoint_file when that entry is chosen.
C4_LatestModel ==
    /\ [](sel.pc = "model" =>
            LET latest_model == sel.menu_options[1].path
            IN /\ \E i \in DOMAIN sel.checkpoint_paths :
                     sel.checkpoint_paths[i] = latest_model
               /\ \A i \in DOMAIN sel.checkpoint_paths :
                     _get_model_num(latest_model.name)
                        >= _get_model_num(sel.checkpoint_paths[i].name))
    /\ [][(sel.pc = "model" /\ sel'.pc = "num_envs")
            => sel'.selected_checkpoint_file = sel.menu_options[1].path]_vars

\* C4 witness: model_2.pt is listed before model_10.pt and model_10.pt is
\* the one offered.
C4_Witness ==
    /\ sel.pc = "model"
    /\ Len(sel.checkpoint_paths) = 2
    /\ sel.checkpoint_paths[1].name = CheckpointFile(<<"2">>)
    /\ sel.checkpoint_paths[2].name = CheckpointFile(<<"1", "0">>)
    /\ sel.menu_options[1].path.name = CheckpointFile(<<"1", "0">>)

\* The log directory TASK_LOG_MAP gives a task.
LogDirOf(task) ==
    TASK_LOG_MAP[CHOOSE i \in DOMAIN TASK_LOG_MAP : TASK_LOG_MAP[i].key = task].value

\* The places of task in the lists of REVERSE_LOG_MAP.
PlacesOf(rev, task) ==
    {<<i, k>> \in (DOMAIN rev) \X (1..Len(TASKS)) :
        k \in DOMAIN rev[i].value /\ rev[i].value[k] = task}

\* C5: REVERSE_LOG_MAP is the inverse of TASK_LOG_MAP: a task is in the list
\* of a log directory exactly when TASK_LOG_MAP maps it there, every task is
\* in exactly one list exactly once, each log directory is one key, and the
\* keys are the values of TASK_LOG_MAP.
C5_ReverseMapInverse ==
    sel.pc # "unbuilt" =>
        LET rev == sel.REVERSE_LOG_MAP
            tasks == DictKeys(TASK_LOG_MAP)
        IN /\ \A i, j \in DOMAIN rev : rev[i].key = rev[j].key => i = j
           /\ \A task \in tasks : \A i \in DOMAIN rev :
                 (\E k \in DOMAIN rev[i].value : rev[i].value[k] = task)
                    <=> LogDirOf(task) = rev[i].key
           /\ \A i \in DOMAIN rev : \A k \in DOMAIN rev[i].value :
                 rev[i].value[k] \in tasks
           /\ \A task \in tasks : Cardinality(PlacesOf(rev, task)) = 1
           /\ DictKeys(rev) = {TASK_LOG_MAP[i].value : i \in DOMAIN TASK_LOG_MAP}

\* C5 witness: the constructed selector maps humanoid_flat to its three
\* tasks and offers the two g1_flat tasks in quick-start mode.
C5_Witness ==
    /\ sel.pc = "task"
    /\ sel.mode = "fast"
    /\ sel.latest_checkpoint_info.log_dir = "g1_flat"
    /\ Len(sel.menu_options) = 2
    /\ Len(DictGet(sel.REVERSE_LOG_MAP, "humanoid_flat", << >>)) = 3

\* The errors after which the code calls sys.exit(1), and those of the
\* number-of-environments prompt.
FatalErrors == {"error_no_options", "error_log_dir_missing", "error_no_checkpoint"}
InputErrors == {"error_not_a_number", "error_not_positive"}

\* C6 as claimed: once any error has been reported the process has
\* terminated.
C6_EveryErrorTerminal ==
    sel.pc # "unbuilt" =>
        (sel.messages \cap (FatalErrors \cup InputErrors) # {} => sel.pc = "exit")

\* C6 amended: an empty option list, a missing log directory and a run
\* directory without checkpoint end the process with no prompt after the
\* message; a rejected number-of-environments input prints its message and
\* shows the same prompt again.
C6_TerminalErrors ==
    /\ [](sel.messages \cap FatalErrors # {}
            => sel.pc = "exit" /\ sel.exit_code = ErrorExitCode)
    /\ [][sel.messages \cap FatalErrors # {}
            => sel'.prompts = sel.prompts /\ sel'.steps = sel.steps]_vars
    /\ [][sel'.messages \cap FatalErrors # {} => sel'.prompts = sel.prompts]_vars
    /\ [][(sel.pc = "num_envs" /\ sel'.rejected # sel.rejected)
            => /\ sel'.pc = "num_envs"
               /\ sel'.prompts = sel.prompts + 1
               /\ sel'.messages \cap InputErrors # {}
               /\ sel'.num_envs = sel.num_envs]_vars

\* C6 witness: the run directory holds no checkpoint and the process has
\* exited after four menus.
C6_Witness ==
    /\ sel.pc = "exit"
    /\ "error_no_checkpoint" \in sel.messages
    /\ sel.steps = <<"mode", "task", "motion", "date", "run">>

\* The failures C7 names, as the selector has seen them.
LogDirMissingSeen == sel.log_dir_exists = "no"
EmptyMenuSeen == sel.menu \in MenuSteps /\ sel.menu_options = << >>
NoCheckpointSeen ==
    /\ sel.menu = "run"
    /\ sel.selected_run_dir # << >>
    /\ sel.checkpoint_paths = << >>
FailureSeen == LogDirMissingSeen \/ EmptyMenuSeen \/ NoCheckpointSeen

\* C7 as claimed: after such a failure the selector has printed a message
\* and exited with status 1, and selected_checkpoint_file was never assigned.
C7_FailureNeverAssigns ==
    sel.pc # "unbuilt" =>
        (FailureSeen =>
            /\ sel.messages \cap FatalErrors # {}
            /\ sel.pc = "exit"
            /\ sel.exit_code = 1
            /\ sel.selected_checkpoint_file = NonePath)

\* C7 amended: after such a failure the selector has printed a message and
\* exited with status 1 and no later step runs; selected_checkpoint_file is
\* still None in the manual flow, and in quick-start mode it holds the
\* checkpoint assigned before the task prompt.
C7_FailureExits ==
    /\ [](FailureSeen =>
            /\ sel.messages \cap FatalErrors # {}
            /\ sel.pc = "exit"
            /\ sel.exit_code = 1
            /\ sel.mode # "fast" => sel.selected_checkpoint_file = NonePath
            /\ sel.mode = "fast" =>
                  sel.selected_checkpoint_file = sel.latest_checkpoint_info.path)
    /\ [][FailureSeen => sel' = sel]_vars

\* C7 witness: quick start with no motion file: the motion menu has no
\* option and the checkpoint was assigned before.
C7_Witness ==
    /\ sel.pc = "exit"
    /\ sel.exit_code = 1
    /\ sel.menu = "motion"
    /\ sel.menu_options = << >>
    /\ sel.mode = "fast"
    /\ sel.selected_checkpoint_file # NonePath

\* C8: a cancelled menu, and a KeyboardInterrupt at the number-of-
\* environments prompt, print the cancellation and end the process with
\* status 0: no step or prompt follows and the summary is never printed.
C8_CancelExits ==
    /\ [](sel.pc # "unbuilt" /\ sel.last_input \in {"cancel", "interrupt"}
            => /\ "cancelled" \in sel.messages
               /\ sel.pc = "exit"
               /\ sel.exit_code = 0
               /\ "summary" \notin sel.messages)
    /\ [][(sel.pc \in MenuSteps \cup {"num_envs"}
             /\ sel'.last_input \in {"cancel", "interrupt"})
            => sel'.steps = sel.steps /\ sel'.prompts = sel.prompts]_vars

\* C8 witness: the menu of all models (step 5b) is cancelled.
C8_Witness ==
    /\ sel.pc = "exit"
    /\ sel.last_input = "cancel"
    /\ sel.menu = "model_5b"
    /\ sel.exit_code = 0

\* The order of the steps of the flow.
StepOrder == <<"mode", "task", "motion", "date", "run", "model", "num_envs">>
StepPos(step) == CHOOSE p \in DOMAIN StepOrder : StepOrder[p] = step
ManualSteps == {"date", "run", "model"}

\* C10: the steps of a run are entered in the fixed order, each at most
\* once, the date, run directory and model steps only in manual mode; the
\* prompt shown is the one of the step entered last; a run that returns has
\* entered every step of its mode.
C10_LinearFlow ==
    sel.pc # "unbuilt" =>
        /\ \A i, j \in DOMAIN sel.steps :
              i < j => StepPos(sel.steps[i]) < StepPos(sel.steps[j])
        /\ \A i \in DOMAIN sel.steps :
              /\ sel.steps[i] \in ManualSteps => sel.mode = "manual"
              /\ i > 1 /\ sel.steps[i] \notin {"date", "num_envs"}
                   => sel.steps[i - 1] = StepOrder[StepPos(sel.steps[i]) - 1]
              /\ sel.steps[i] = "date" => sel.steps[i - 1] = "motion"
        /\ sel.pc \in MenuSteps \cup {"num_envs"} =>
              sel.steps[Len(sel.steps)] = (IF sel.pc = "model_5b" THEN "model" ELSE sel.pc)
        /\ sel.pc = "done" /\ sel.mode = "manual" => sel.steps = StepOrder
        /\ sel.pc = "done" /\ sel.mode = "fast" =>
              sel.steps = <<"mode", "task", "motion", "num_envs">>

\* C10 witness: a manual run that went through step 5b has returned.
C10_Witness ==
    /\ sel.pc = "done"
    /\ sel.mode = "manual"
    /\ sel.steps = StepOrder
    /\ sel.selected_checkpoint_file # NonePath

\* The dates of the run directories of all_run_dirs whose name has the form
\* <YYYY-MM-DD>_<HH-MM-SS>[_<run-name>].
DatesFound == {d \in Dates : \E x \in sel.all_run_dirs : DirRegexMatch(x) /\ x[1] = d}

\* C11: the date menu lists the dates found in the names of the run
\* directories, each once, in strictly descending order, so its first entry
\* is the greatest date; the run directory menu that follows lists
\* directories of all_run_dirs whose name begins with the selected date, and
\* every run directory of that date is among them.
C11_DatesDescending ==
    /\ [](sel.pc = "date" =>
            LET opts == sel.menu_options
            IN /\ \A i, j \in DOMAIN opts :
                     i < j => TokenRank(opts[i]) > TokenRank(opts[j])
               /\ {opts[i] : i \in DOMAIN opts} = DatesFound
               /\ \A d \in DatesFound : TokenRank(d) <= TokenRank(opts[1]))
    /\ [](sel.pc = "run" =>
            LET opts == sel.menu_options
            IN /\ sel.selected_date \in DatesFound
               /\ \A i \in DOMAIN opts :
                     /\ opts[i] \in sel.all_run_dirs
                     /\ opts[i][1] = sel.selected_date
               /\ \A x \in sel.all_run_dirs :
                     DirRegexMatch(x) /\ x[1] = sel.selected_date
                        => \E i \in DOMAIN opts : opts[i] = x)
    /\ [][(sel.pc = "date" /\ sel'.pc = "run")
            => \E i \in DOMAIN sel.menu_options :
                  sel'.selected_date = sel.menu_options[i]]_vars

\* C11 witness: run directories of two dates; the older date was chosen and
\* the run directory menu shows its one directory.
C11_Witness ==
    /\ sel.pc = "run"
    /\ DatesFound = Dates
    /\ sel.selected_date = "2024-01-01"
    /\ Len(sel.menu_options) = 1

\* C12: the motion menu offers files found under artifacts/, one for each
\* base name found there, and the file offered for a base name has a version
\* at least that of every directory of that base name, a directory without
\* ':v<digits>' counting as version -1.
C12_LatestMotionVersion ==
    sel.pc = "motion" =>
        LET paths == sel.all_motion_paths
            opts == sel.menu_options
        IN /\ \A j \in DOMAIN opts : \E i \in DOMAIN paths : paths[i] = opts[j]
           /\ \A i \in DOMAIN paths :
                 Cardinality({j \in DOMAIN opts :
                                 BaseName(opts[j].dir) = BaseName(paths[i].dir)}) = 1
           /\ \A j \in DOMAIN opts : \A i \in DOMAIN paths :
                 BaseName(opts[j].dir) = BaseName(paths[i].dir)
                    => Version(opts[j].dir) >= Version(paths[i].dir)

\* C12 witness: a:v2 is found before a:v10 and a:v10 is the one entry.
C12_Witness ==
    /\ sel.pc = "motion"
    /\ Len(sel.all_motion_paths) = 2
    /\ sel.all_motion_paths[1].dir = <<"a", ":v", "2">>
    /\ sel.all_motion_paths[2].dir = <<"a", ":v", "1", "0">>
    /\ Len(sel.menu_options) = 1
    /\ sel.menu_options[1].dir = <<"a", ":v", "1", "0">>

\* C13: when quick start is chosen, selected_checkpoint_file is a file of
\* the scan of logs/rsl_rl made at construction whose modification time is
\* the greatest of the scan, it stays the selected file, and the date, run
\* directory and model menus are never shown in that run.
C13_QuickStartLatest ==
    /\ [](sel.pc = "task" /\ sel.mode = "fast" =>
            \E i \in DOMAIN sel.all_models :
                /\ sel.all_models[i].path = sel.selected_checkpoint_file
                /\ \A j \in DOMAIN sel.all_models :
                      sel.all_models[j].mtime <= sel.all_models[i].mtime)
    /\ [](sel.pc # "unbuilt" /\ sel.mode = "fast" =>
            /\ sel.selected_checkpoint_file = sel.latest_checkpoint_info.path
            /\ sel.selected_checkpoint_file # NonePath
            /\ sel.menu \notin {"date", "run", "model", "model_5b"}
            /\ \A k \in DOMAIN sel.steps :
                  sel.steps[k] \notin {"date", "run", "model"})
    /\ [][(sel.pc = "mode" /\ sel'.mode = "fast")
            => sel'.selected_checkpoint_file = sel.latest_checkpoint_info.path]_vars

\* C13 witness: the scan found an older g1_flat model before a newer s3_flat
\* model; quick start was chosen and holds the s3_flat model.
C13_Witness ==
    /\ sel.pc = "task"
    /\ sel.mode = "fast"
    /\ Len(sel.all_models) = 2
    /\ sel.all_models[1].mtime < sel.all_models[2].mtime
    /\ sel.selected_checkpoint_file = sel.all_models[2].path
    /\ sel.selected_checkpoint_file.log_dir = "s3_flat"

\* C14: a selector built with require_motion_file = False never shows the
\* motion menu and never reads the artifacts directory, in either mode, and
\* its selected_motion_file is None; with require_motion_file = True the
\* file picked at the motion menu is one of the motion.npz paths offered, it
\* is not assigned again, and a flow that returns has it.
C14_MotionStepOptional ==
    /\ [](sel.pc # "unbuilt" /\ ~sel.require_motion_file =>
            /\ sel.pc # "motion"
            /\ sel.menu # "motion"
            /\ ~sel.artifacts_read
            /\ sel.all_motion_paths = << >>
            /\ sel.selected_motion_file = NonePath)
    /\ [](sel.pc = "done" /\ sel.require_motion_file =>
            /\ sel.selected_motion_file # NonePath
            /\ sel.selected_motion_file.name = <<"motion.npz">>
            /\ sel.artifacts_read)
    /\ [][(sel.pc = "motion" /\ sel'.last_input = "pick") =>
            \E i \in DOMAIN sel.menu_options :
                /\ sel'.selected_motion_file = sel.menu_options[i]
                /\ \E k \in DOMAIN sel.all_motion_paths :
                      sel.all_motion_paths[k] = sel.menu_options[i]]_vars
    /\ [][sel.pc \notin {"motion", "unbuilt"}
            => sel'.selected_motion_file = sel.selected_motion_file]_vars

\* C14 witness: a quick start without motion file has returned.
C14_Witness ==
    /\ sel.pc = "done"
    /\ ~sel.require_motion_file
    /\ sel.mode = "fast"
    /\ "motion_skipped" \in sel.messages
    /\ sel.selected_motion_file = NonePath

\* Whether the text typed at the prompt is an integer > 0.
PositiveInput(str) == IntParses(str) /\ IntValue(str) > 0

\* C15: num_envs is always the default or a positive integer: it is the
\* default until _select_num_envs returns, and then the default if the
\* accepted input was empty and otherwise the integer entered, which is > 0;
\* an input of zero, a negative number or a text that is no integer leaves
\* num_envs as it was and the prompt open.
C15_NumEnvsPositive ==
    /\ [](sel.pc # "unbuilt" =>
            /\ sel.num_envs = sel.default_num_envs \/ sel.num_envs > 0
            /\ sel.pc # "done" => sel.num_envs = sel.default_num_envs)
    /\ [](sel.pc = "done" =>
            IF sel.num_str = << >>
            THEN sel.num_envs = sel.default_num_envs
            ELSE /\ PositiveInput(sel.num_str)
                 /\ sel.num_envs = IntValue(sel.num_str))
    /\ [][(sel.pc = "num_envs" /\ sel'.last_input = "text"
             /\ sel'.num_str # << >> /\ ~PositiveInput(sel'.num_str))
            => /\ sel'.num_envs = sel.num_envs
               /\ sel'.pc = "num_envs"]_vars

\* C15 witness: one input was refused as not positive, then 12 was entered.
C15_Witness ==
    /\ sel.pc = "done"
    /\ sel.rejected = 1
    /\ "error_not_positive" \in sel.messages
    /\ sel.num_str = <<"1", "2">>
    /\ sel.num_envs = 12

\* ---- scripts/edit_urdf_collisions.py: the entry point

MaxIterations == 3

\* --urdf_path as a sequence of path components; "/" first makes it absolute.
PathTokens == {"/", "robot.urdf"}
UrdfPaths == {<< >>} \cup {<<a>> : a \in PathTokens}
                \cup {<<a, b>> : a, b \in PathTokens}

\* os.path.isabs on POSIX
isabs(path) == Len(path) > 0 /\ path[1] = "/"

\* The script after the module-level launch of the app, before main().
UrdfStart(path, exists) ==
    [pc |-> "main",
     urdf_path |-> path,
     path_exists |-> exists,
     messages |-> {},
     launcher_closed |-> 0,
     main_returned |-> FALSE,
     sim_created |-> FALSE,
     scene_created |-> FALSE,
     sim_reset |-> FALSE,
     is_initialized |-> FALSE,
     iterations |-> 0,
     physics_steps |-> 0,
     scene_updates |-> 0,
     camera_views |-> 0,
     app_closed |-> FALSE]

PathError_Continues(u, msg) ==
    [u EXCEPT !.messages = @ \cup {msg}, !.pc = "create_sim"]

\* print the error; app_launcher.close(); return
PathError(u, msg) ==
    [u EXCEPT !.messages = @ \cup {msg},
              !.launcher_closed = @ + 1,
              !.main_returned = TRUE,
              !.pc = "finally"]

\* The two tests at the head of main().
CheckUrdfPath(u) ==
    IF ~isabs(u.urdf_path) THEN PathError(u, "error_not_absolute")
    ELSE IF ~u.path_exists THEN PathError(u, "error_not_found")
    ELSE [u EXCEPT !.pc = "create_sim"]

\* main() up to the SimulationContext
main ==
    /\ urdf.pc = "main"
    /\ urdf' = CheckUrdfPath(urdf)
    /\ UNCHANGED <<gateVars, selVars, evVars>>

\* sim = SimulationContext(sim_cfg)
CreateSimulationContext ==
    /\ urdf.pc = "create_sim"
    /\ urdf' = [urdf EXCEPT !.sim_created = TRUE, !.pc = "create_scene"]
    /\ UNCHANGED <<gateVars, selVars, evVars>>

\* scene = InteractiveScene(scene_cfg)
CreateInteractiveScene ==
    /\ urdf.pc = "create_scene"
    /\ urdf' = [urdf EXCEPT !.scene_created = TRUE, !.pc = "reset"]
    /\ UNCHANGED <<gateVars, selVars, evVars>>

\* sim.reset(); the message that the setup is done; run_simulator is entered
ResetSimulation ==
    /\ urdf.pc = "reset"
    /\ urdf' = [urdf EXCEPT !.sim_reset = TRUE,
                            !.messages = @ \cup {"setup_done"},
                            !.pc = "loop"]
    /\ UNCHANGED <<gateVars, selVars, evVars>>

\* while simulation_app.is_running(): the robot is not initialized yet
WaitForRobot ==
    /\ urdf.pc = "loop"
    /\ urdf.iterations < MaxIterations
    /\ ~urdf.is_initialized
    /\ \E initialized \in BOOLEAN :
          urdf' = [urdf EXCEPT !.iterations = @ + 1,
                               !.scene_updates = @ + 1,
                               !.is_initialized = initialized]
    /\ UNCHANGED <<gateVars, selVars, evVars>>

\* while simulation_app.is_running(): one physics step, the scene update and
\* the camera view (skipped when the robot data raise)
StepSimulation ==
    /\ urdf.pc = "loop"
    /\ urdf.iterations < MaxIterations
    /\ urdf.is_initialized
    /\ \E camera_ok \in BOOLEAN :
          urdf' = [urdf EXCEPT !.iterations = @ + 1,
                               !.physics_steps = @ + 1,
                               !.scene_updates = @ + 1,
                               !.camera_views = IF camera_ok THEN @ + 1 ELSE @]
    /\ UNCHANGED <<gateVars, selVars, evVars>>

\* simulation_app.is_running() is false: run_simulator and main return
StopSimulation ==
    /\ urdf.pc = "loop"
    /\ urdf' = [urdf EXCEPT !.main_returned = TRUE, !.pc = "finally"]
    /\ UNCHANGED <<gateVars, selVars, evVars>>

\* except Exception as e: a call of main after the tests raised
HandleException ==
    /\ urdf.pc \in {"create_sim", "create_scene", "reset", "loop"}
    /\ urdf' = [urdf EXCEPT !.messages = @ \cup {"run_error"}, !.pc = "finally"]
    /\ UNCHANGED <<gateVars, selVars, evVars>>

\* finally: simulation_app.close()
CloseSimulationApp ==
    /\ urdf.pc = "finally"
    /\ urdf' = [urdf EXCEPT !.app_closed = TRUE, !.pc = "closed"]
    /\ UNCHANGED <<gateVars, selVars, evVars>>

UrdfNext ==
    \/ main
    \/ CreateSimulationContext
    \/ CreateInteractiveScene
    \/ ResetSimulation
    \/ WaitForRobot
    \/ StepSimulation
    \/ StopSimulation
    \/ HandleException
    \/ CloseSimulationApp

\* The script alone: the gates and the selector stay as constructed.
UrdfInit ==
    /\ urdf \in {UrdfStart(path, exists) :
                    path \in UrdfPaths, exists \in BOOLEAN}
    /\ urdf.urdf_path = << >> => ~urdf.path_exists
    /\ sel = SelIdle
    /\ ev = EvIdle
    /\ has_tracker = FALSE
    /\ curriculum_tracker = NewTracker
    /\ event_terms = {}
    /\ params = [e \in EventTerms |-> "initial"]
    /\ finished_lengths = << >>
    /\ registered = {}
    /\ target_mean_len = [g \in Gates |-> 1]
    /\ pending = {}
    /\ batches = 0
    /\ writes = [e \in EventTerms |-> 0]
    /\ finished_sum = 0
    /\ finished_cnt = 0
    /\ last_call = [gate |-> "none", was_triggered |-> FALSE, compared |-> FALSE]
    /\ warned = {}

SpecUrdf == UrdfInit /\ [][UrdfNext]_vars

\* ---- claims about the entry point

\* The --urdf_path that C9 is about: not absolute, or naming no file.
UrdfPathRefused ==
    \/ urdf.urdf_path = << >>
    \/ Head(urdf.urdf_path) # "/"
    \/ ~urdf.path_exists

\* C9: with a --urdf_path that is not absolute or names no file, main prints
\* an error, closes the app launcher and returns; no simulation context and
\* no scene is created, the simulation loop is never entered and no physics
\* step is run.
C9_RefusedPathNoSimulation ==
    /\ [](urdf.pc # "unstarted" /\ UrdfPathRefused
            => /\ ~urdf.sim_created
               /\ ~urdf.scene_created
               /\ ~urdf.sim_reset
               /\ urdf.iterations = 0
               /\ urdf.physics_steps = 0
               /\ urdf.scene_updates = 0
               /\ "setup_done" \notin urdf.messages
               /\ urdf.pc \in {"main", "finally", "closed"})
    /\ [](urdf.pc \in {"finally", "closed"} /\ UrdfPathRefused
            => /\ urdf.messages \in {{"error_not_absolute"}, {"error_not_found"}}
               /\ urdf.launcher_closed = 1
               /\ urdf.main_returned)
    /\ [][(urdf.pc = "main" /\ UrdfPathRefused) => urdf'.pc = "finally"]_vars

\* C9 witness: an absolute path that names no file: the error is printed
\* and the script has ended.
C9_Witness ==
    /\ urdf.pc = "closed"
    /\ urdf.urdf_path = <<"/", "robot.urdf">>
    /\ ~urdf.path_exists
    /\ urdf.messages = {"error_not_found"}
    /\ urdf.launcher_closed = 1

\* ---- mdp/events.py: randomize_joint_default_pos

\* Most calls of randomize_joint_default_pos in one run.
MaxCalls == 2

\* The environments of the scene and the joints of the asset.
EvEnvs == {0, 1}
JointIds == {0, 1}
\* Default joint positions of the asset's configuration.
NominalValues == {0, 1}
\* Values the distribution can draw for one entry.
SampleValues == {1, 2}
Operations == {"abs", "add", "scale"}

\* The argument env_ids: None or a tensor of environment ids.
EnvIdArgs ==
    {[is_none |-> TRUE, ids |-> {}]}
        \cup {[is_none |-> FALSE, ids |-> {e}] : e \in EvEnvs}

\* asset_cfg.joint_ids: slice(None) or a list of joint ids.
JointIdArgs ==
    {[is_slice |-> TRUE, ids |-> {}]}
        \cup {[is_slice |-> FALSE, ids |-> {j}] : j \in JointIds}

\* if env_ids is None: env_ids = torch.arange(env.scene.num_envs)
ResolveEnvIds(arg) == IF arg.is_none THEN EvEnvs ELSE arg.ids

\* joint_ids = slice(None) or torch.tensor(asset_cfg.joint_ids)
ResolveJointIds(arg) == IF arg.is_slice THEN JointIds ELSE arg.ids

\* One entry under the operation of _randomize_prop_by_op.
ApplyOperation(operation, value, sample) ==
    CASE operation = "abs" -> sample
      [] operation = "add" -> value + sample
      [] operation = "scale" -> value * sample

\* _randomize_prop_by_op(pos, ..., env_ids, joint_ids, operation, ...): the
\* entries of the selected rows and columns changed by the samples drawn.
_randomize_prop_by_op(data, samples, dim_0_ids, dim_1_ids, operation) ==
    [e \in EvEnvs |-> [j \in JointIds |->
        IF e \in dim_0_ids /\ j \in dim_1_ids
        THEN ApplyOperation(operation, data[e][j], samples[e][j])
        ELSE data[e][j]]]

\* tensor[env_ids, joint_ids] = pos, pos holding the selected entries
IndexPut(tensor, dim_0_ids, dim_1_ids, pos) ==
    [e \in EvEnvs |-> [j \in JointIds |->
        IF e \in dim_0_ids /\ j \in dim_1_ids THEN pos[e][j] ELSE tensor[e][j]]]

SetOffset_Skipped(offset, dim_0_ids, dim_1_ids, pos) == offset

\* env.action_manager.get_term("joint_pos")._offset[env_ids, joint_ids] = pos
SetOffset(offset, dim_0_ids, dim_1_ids, pos) ==
    IndexPut(offset, dim_0_ids, dim_1_ids, pos)

\* The scene after its construction: every environment has the default
\* joint positions of the configuration, and the joint_pos action term its
\* offset (the default positions, or zero).
EvStart(nominal, offset_is_default, operation) ==
    [pc |-> "loaded",
     default_joint_pos |-> [e \in EvEnvs |-> nominal],
     has_nominal |-> FALSE,
     default_joint_pos_nominal |-> [j \in JointIds |-> 0],
     _offset |-> [e \in EvEnvs |->
                    IF offset_is_default THEN nominal ELSE [j \in JointIds |-> 0]],
     operation |-> operation,
     \* history
     initial_joint_pos |-> nominal,
     calls |-> 0,
     env_ids |-> {},
     joint_ids |-> {},
     has_params |-> FALSE]

\* One call of randomize_joint_default_pos.
randomize_joint_default_pos ==
    /\ ev.pc = "loaded"
    /\ ev.calls < MaxCalls
    /\ \E env_ids_arg \in EnvIdArgs, joint_ids_arg \in JointIdArgs,
          has_params \in BOOLEAN :
        LET dim_0_ids == ResolveEnvIds(env_ids_arg)
            dim_1_ids == ResolveJointIds(joint_ids_arg)
            saved == [ev EXCEPT !.has_nominal = TRUE,
                                !.default_joint_pos_nominal = ev.default_joint_pos[0],
                                !.calls = @ + 1,
                                !.env_ids = dim_0_ids,
                                !.joint_ids = dim_1_ids,
                                !.has_params = has_params]
        IN IF ~has_params
           THEN ev' = saved
           ELSE \E samples \in [dim_0_ids -> [dim_1_ids -> SampleValues]] :
                  LET pos == _randomize_prop_by_op(ev.default_joint_pos, samples,
                                                   dim_0_ids, dim_1_ids, ev.operation)
                  IN ev' = [saved EXCEPT
                              !.default_joint_pos =
                                  IndexPut(@, dim_0_ids, dim_1_ids, pos),
                              !._offset = SetOffset(@, dim_0_ids, dim_1_ids, pos)]
    /\ UNCHANGED <<gateVars, selVars, urdfVars>>

EvNext == randomize_joint_default_pos

\* The event function alone: the gates, the selector and the URDF script
\* stay as constructed.
EvInit ==
    /\ ev \in {EvStart(nominal, offset_is_default, operation) :
                 nominal \in [JointIds -> NominalValues],
                 offset_is_default \in BOOLEAN,
                 operation \in Operations}
    /\ sel = SelIdle
    /\ urdf = UrdfIdle
    /\ has_tracker = FALSE
    /\ curriculum_tracker = NewTracker
    /\ event_terms = {}
    /\ params = [e \in EventTerms |-> "initial"]
    /\ finished_lengths = << >>
    /\ registered = {}
    /\ target_mean_len = [g \in Gates |-> 1]
    /\ pending = {}
    /\ batches = 0
    /\ writes = [e \in EventTerms |-> 0]
    /\ finished_sum = 0
    /\ finished_cnt = 0
    /\ last_call = [gate |-> "none", was_triggered |-> FALSE, compared |-> FALSE]
    /\ warned = {}

SpecEvent == EvInit /\ [][EvNext]_vars

\* ---- claims about the joint default positions

\* C16: after any sequence of calls, default_joint_pos_nominal is the row
\* of environment 0 of default_joint_pos as it was before the first call.
C16_NominalSaved ==
    ev.pc = "loaded" /\ ev.calls > 0 =>
        /\ ev.has_nominal
        /\ ev.default_joint_pos_nominal = ev.initial_joint_pos

\* C17: after a call with pos_distribution_params, _offset equals
\* default_joint_pos at every selected environment and joint and both
\* tensors are as before elsewhere; a call without pos_distribution_params
\* changes neither tensor.
C17_OffsetFollowsDefault ==
    [][(ev.pc = "loaded" /\ ev'.calls = ev.calls + 1) =>
         IF ev'.has_params
         THEN \A e \in EvEnvs, j \in JointIds :
                 IF e \in ev'.env_ids /\ j \in ev'.joint_ids
                 THEN ev'._offset[e][j] = ev'.default_joint_pos[e][j]
                 ELSE /\ ev'._offset[e][j] = ev._offset[e][j]
                      /\ ev'.default_joint_pos[e][j] = ev.default_joint_pos[e][j]
         ELSE /\ ev'._offset = ev._offset
              /\ ev'.default_joint_pos = ev.default_joint_pos]_vars

\* C17 witness: joint 0 of environment 1 alone was randomized: its default
\* position and its offset moved together, away from environment 0.
C17_Witness ==
    /\ ev.pc = "loaded"
    /\ ev.calls = 1
    /\ ev.has_params
    /\ ev.env_ids = {1}
    /\ ev.joint_ids = {0}
    /\ ev.default_joint_pos[1][0] # ev.default_joint_pos[0][0]
    /\ ev._offset[1][0] = ev.default_joint_pos[1][0]
    /\ ev._offset[1][1] = 0
    /\ ev.default_joint_pos[1][1] = 1

\* ---- claims about the curriculum gates

\* The event term and the configured range of each gate.
TermOf(g) == IF g = "armature" THEN "add_dof_armature" ELSE "push_robot"
RangeOf(g) == IF g = "armature" THEN "active_range" ELSE "new_velocity_range"

\* This step is a call of gate g.
GateCalled(g) == g \in pending /\ g \notin pending'

\* The running mean after this call's accumulation is defined and at least
\* gate g's target_mean_len.
MeanAfterCall(g) ==
    LET t == Tracker(has_tracker, curriculum_tracker)
        total == t.total_len + SumLens(finished_lengths)
        n == t.num_episodes + Cardinality(env_ids)
    IN n > 0 /\ total >= target_mean_len[g] * n

\* C1: each gate is one-shot: its event parameter is assigned at most once,
\* and a call made once the gate's flag is in triggered_events changes
\* neither the tracker nor any event parameter.
C1_OneShot ==
    /\ [](\A e \in EventTerms : writes[e] <= 1)
    /\ [][\A g \in Gates :
            (GateCalled(g) /\ g \in curriculum_tracker.triggered_events)
            => UNCHANGED <<curriculum_tracker, params, writes>>]_vars

\* C1 witness: the armature gate is called again after it has triggered and
\* written its parameter.
C1_Witness ==
    /\ last_call.gate = "armature"
    /\ last_call.was_triggered
    /\ writes["add_dof_armature"] = 1
    /\ params["add_dof_armature"] = "active_range"

\* C2: on any call of a gate that has not triggered and whose event term
\* exists, a running mean (after the call's accumulation) at or above the
\* target makes that same call set the parameter and record the flag.
C2_FlipAtThreshold ==
    [][\A g \in Gates :
         (/\ GateCalled(g)
          /\ g \notin Tracker(has_tracker, curriculum_tracker).triggered_events
          /\ TermOf(g) \in event_terms
          /\ MeanAfterCall(g))
         => /\ params'[TermOf(g)] = RangeOf(g)
            /\ g \in curriculum_tracker'.triggered_events]_vars

\* C3: whenever a gate has just compared its statistic with the target, the
\* statistic total_len / num_episodes equals the mean of the lengths of all
\* episodes reported finished so far, each counted once.
C3_RunningMean ==
    last_call.compared =>
        /\ finished_cnt > 0
        /\ curriculum_tracker.total_len * finished_cnt
             = finished_sum * curriculum_tracker.num_episodes

\* This call of gate g finds the gate untriggered and its event term missing.
TermMissingAtCall(g) ==
    /\ GateCalled(g)
    /\ g \notin Tracker(has_tracker, curriculum_tracker).triggered_events
    /\ TermOf(g) \notin event_terms

\* C18: a call of an untriggered gate whose event term is missing adds no
\* flag and changes no event parameter, whatever the mean, and the tracker
\* goes on accumulating the finished episodes; and once a gate has printed
\* its warning, the first later call that finds the term present and the
\* mean at or above the target sets the parameter and records the flag.
C18_NoLatchWithoutTerm ==
    /\ [][\A g \in Gates :
            TermMissingAtCall(g)
            => /\ g \notin curriculum_tracker'.triggered_events
               /\ params' = params
               /\ writes' = writes
               /\ curriculum_tracker'.num_episodes =
                     Tracker(has_tracker, curriculum_tracker).num_episodes
                        + Cardinality(env_ids)]_vars
    /\ [][\A g \in Gates :
            (/\ GateCalled(g)
             /\ g \in warned
             /\ g \notin curriculum_tracker.triggered_events
             /\ TermOf(g) \in event_terms
             /\ MeanAfterCall(g))
            => /\ g \in curriculum_tracker'.triggered_events
               /\ params'[TermOf(g)] = RangeOf(g)]_vars

====
